---------------------------- MODULE Spec2Model ----------------------------
(***************************************************************************)
(* A model of the quantitative_analysis package: the group partitioners,   *)
(* the factor-analysis pipeline (factor_analysis.py) and the bootstrap     *)
(* correlation estimator (correlation_heatmaps.py).                        *)
(*                                                                         *)
(* DataFrames are objects on a heap: a frame is a record                   *)
(*   [cols |-> sequence of column names,                                   *)
(*    rows |-> sequence of [id |-> index label, v |-> [column -> value]]]  *)
(* and the program's variables hold references (positions in heap), so     *)
(* that an in-place operation such as drop(inplace=True) changes whatever  *)
(* object the reference names.                                             *)
(*                                                                         *)
(* Numbers: the columns read from the CSV are float64 as soon as a value   *)
(* is missing, so 'hidden' is not restricted to whole numbers.  A hidden   *)
(* value is stored in units of 1/HiddenUnit (Num(50) is 50, Num(50) + 1    *)
(* lies strictly between 50 and 51).  NaN is the missing value: every      *)
(* comparison with it is false.                                            *)
(***************************************************************************)
EXTENDS Integers, Sequences, FiniteSets, TLC

VARIABLES
    heap,        \* the DataFrame / ndarray objects, by reference
    matrix,      \* reference of the (filtered) input matrix, 0 before it exists
    groups,      \* factor_analysis.prepare_format_groups' result: references
    forms,       \* correlation_heatmaps.prepare_format_groups' result: references
    pc,          \* position of factor_analysis.main
    adequacy,    \* result of perform_adequacy_tests in main
    fa,          \* result of perform_factor_analysis in main
    saved,       \* group indices passed to save_loadings_to_csv, in call order
    out,         \* what main has printed / plotted, in order
    tri,         \* get_upper_triangle: the argument and the result
    boot,        \* run_bootstrap_analysis: loop position, samples, reports
    ct           \* completion_time_analysis.main: data, results, reports

vars == <<heap, matrix, groups, forms, pc, adequacy, fa, saved, out, tri, boot, ct>>

---------------------------------------------------------------------------
(* Bounds of the model *)

\* rows of a filtered input matrix handed to the partitioners
MaxRows == 2
\* resolution of the 'hidden' column: values are multiples of 1/HiddenUnit
HiddenUnit == 2

---------------------------------------------------------------------------
(* Program constants *)

NaN == -1

STUDENT_ROLE_CODE == 2
FREQUENT_VISITOR_THRESHOLD == 1
HIDDEN_THRESHOLD == 50
NUM_FACTORS == 3
NUM_GROUPS == 4

QUESTION_COLS ==
    <<"g01", "g02", "g03", "g04", "g05", "g06",
      "g07", "g08", "g09", "g10", "g11", "g12">>

\* the column list of correlation_heatmaps.prepare_format_groups
CH_COLUMNS ==
    <<"formatUp", "hidden", "g01", "g02", "g03", "g04", "g05", "g06",
      "g07", "g08", "g09", "g10", "g11", "g12">>

\* the columns both partitioners drop from every group
AUX_COLS == {"formatUp", "hidden"}

---------------------------------------------------------------------------
(* Values and comparisons (NumPy semantics: NaN compares false) *)

Num(x) == x * HiddenUnit

Eq(x, y) == x # NaN /\ y # NaN /\ x = y
Lt(x, y) == x # NaN /\ y # NaN /\ x < y
Gt(x, y) == x # NaN /\ y # NaN /\ x > y

Range(s) == {s[k] : k \in DOMAIN s}

RECURSIVE SumSeq(_)
SumSeq(s) == IF s = <<>> THEN 0 ELSE Head(s) + SumSeq(Tail(s))

---------------------------------------------------------------------------
(* DataFrame operations *)

Ids(df) == {df.rows[k].id : k \in DOMAIN df.rows}

\* df[cols]: the listed columns, in the listed order
SelectCols(df, cols) ==
    [cols |-> cols,
     rows |-> [k \in DOMAIN df.rows |->
                 [id |-> df.rows[k].id,
                  v  |-> [c \in Range(cols) |-> df.rows[k].v[c]]]]]

\* df[mask]: the rows whose mask entry is true, in order
ApplyMask(df, mask) ==
    LET keep == SelectSeq([k \in DOMAIN df.rows |-> k], LAMBDA k : mask[k])
    IN  [cols |-> df.cols,
         rows |-> [j \in DOMAIN keep |-> df.rows[keep[j]]]]

\* df.drop(names, axis=1): the remaining columns keep their order
DropCols(df, names) ==
    LET left == SelectSeq(df.cols, LAMBDA c : c \notin names)
    IN  SelectCols(df, left)

\* a row is complete when none of the listed columns is missing
Complete(row, cols) == \A c \in Range(cols) : row.v[c] # NaN

\* df.dropna()
DropNa(df) ==
    [cols |-> df.cols,
     rows |-> SelectSeq(df.rows, LAMBDA r : Complete(r, df.cols))]

---------------------------------------------------------------------------
(* The heap *)

Store(h, r, df) == IF r \in DOMAIN h THEN [h EXCEPT ![r] = df] ELSE Append(h, df)

\* df[...] and df.copy() build a new object
NewRef(h, r) == Len(h) + 1


---------------------------------------------------------------------------
(* factor_analysis.prepare_format_groups *)

\* the four boolean masks, each computed over the rows of grid
FA_Conditions(grid) ==
    LET f(k) == grid.rows[k].v["formatUp"]
        h(k) == grid.rows[k].v["hidden"]
    IN  << [k \in DOMAIN grid.rows |-> Eq(f(k), 1) /\ Lt(h(k), Num(HIDDEN_THRESHOLD + 1))],
           [k \in DOMAIN grid.rows |-> Eq(f(k), 1) /\ Gt(h(k), Num(HIDDEN_THRESHOLD))],
           [k \in DOMAIN grid.rows |-> Eq(f(k), 2) /\ Lt(h(k), Num(HIDDEN_THRESHOLD + 1))],
           [k \in DOMAIN grid.rows |-> Eq(f(k), 2) /\ Gt(h(k), Num(HIDDEN_THRESHOLD))] >>

\* a bug the loop could have: each mask only sees the rows no earlier group took
GroupRowsCascading(grid, condition, earlier) ==
    LET taken == UNION {Ids(earlier[j]) : j \in DOMAIN earlier}
    IN  ApplyMask(grid, [k \in DOMAIN grid.rows |->
                           condition[k] /\ grid.rows[k].id \notin taken])

\* grid[condition]: the groups appended so far (earlier) play no part
GroupRows(grid, condition, earlier) == ApplyMask(grid, condition)

\* a bug: only formatUp is dropped from a group
GroupDropFormatOnly(group) == DropCols(group, {"formatUp"})

\* group.drop(['formatUp', 'hidden'], axis=1, inplace=True)
GroupDrop(group) == DropCols(group, AUX_COLS)

\* a bug: the column selection is done on the caller's object itself
GridRefInPlace(h, m) == m

\* grid = matrix[cols].copy(): a new object
GridRef(h, m) == NewRef(h, m)

\* for i, condition in enumerate(conditions): ... groups.append(group)
RECURSIVE FA_Loop(_, _, _, _, _)
FA_Loop(h, gridRef, conditions, i, acc) ==
    IF i > Len(conditions)
    THEN [heap |-> h, groups |-> acc]
    ELSE LET ref == NewRef(h, gridRef)
             h1  == Store(h, ref,
                          GroupRows(h[gridRef], conditions[i],
                                    [j \in DOMAIN acc |-> h[acc[j]]]))
             h2  == Store(h1, ref, GroupDrop(h1[ref]))
         IN  FA_Loop(h2, gridRef, conditions, i + 1, Append(acc, ref))

FA_PrepareFormatGroups(h, m) ==
    LET cols    == <<"formatUp", "hidden">> \o QUESTION_COLS
        gridRef == GridRef(h, m)
        h1      == Store(h, gridRef, SelectCols(h[m], cols))
    IN  FA_Loop(h1, gridRef, FA_Conditions(h1[gridRef]), 1, <<>>)

---------------------------------------------------------------------------
(* correlation_heatmaps.prepare_format_groups *)

CH_Conditions(grid) ==
    LET f(k) == grid.rows[k].v["formatUp"]
        h(k) == grid.rows[k].v["hidden"]
    IN  << [k \in DOMAIN grid.rows |-> Eq(f(k), 1) /\ Lt(h(k), Num(51))],
           [k \in DOMAIN grid.rows |-> Eq(f(k), 1) /\ Gt(h(k), Num(50))],
           [k \in DOMAIN grid.rows |-> Eq(f(k), 2) /\ Lt(h(k), Num(51))],
           [k \in DOMAIN grid.rows |-> Eq(f(k), 2) /\ Gt(h(k), Num(50))] >>

\* forms = [grid[...].copy(), ...]: four new objects
RECURSIVE CH_Select(_, _, _, _, _)
CH_Select(h, gridRef, conditions, i, acc) ==
    IF i > Len(conditions)
    THEN [heap |-> h, groups |-> acc]
    ELSE LET ref == NewRef(h, gridRef)
         IN  CH_Select(Store(h, ref, ApplyMask(h[gridRef], conditions[i])),
                       gridRef, conditions, i + 1, Append(acc, ref))

\* for form in forms: form.drop(["formatUp", "hidden"], axis=1, inplace=True)
RECURSIVE CH_DropLoop(_, _, _)
CH_DropLoop(h, refs, i) ==
    IF i > Len(refs)
    THEN h
    ELSE CH_DropLoop(Store(h, refs[i], GroupDrop(h[refs[i]])), refs, i + 1)

CH_PrepareFormatGroups(h, m) ==
    LET gridRef == GridRef(h, m)
        h1      == Store(h, gridRef, SelectCols(h[m], CH_COLUMNS))
        sel     == CH_Select(h1, gridRef, CH_Conditions(h1[gridRef]), 1, <<>>)
    IN  [heap |-> CH_DropLoop(sel.heap, sel.groups, 1), groups |-> sel.groups]

---------------------------------------------------------------------------
(* Input matrices *)

\* two column orders a CSV file may have; neither is the order of QUESTION_COLS
CsvColumns ==
    { <<"uloga", "cesto", "formatUp", "hidden">> \o QUESTION_COLS \o <<"g13">>,
      <<"hidden", "g13", "g12", "g11", "g10", "g09", "g08", "g07", "g06", "g05",
        "g04", "g03", "g02", "g01", "formatUp", "cesto", "uloga">> }

AllCols == {"uloga", "cesto", "formatUp", "hidden", "g13"} \cup Range(QUESTION_COLS)

FormatVals == {1, 2, 3, NaN}
HiddenVals == {Num(HIDDEN_THRESHOLD), Num(HIDDEN_THRESHOLD) + 1,
               Num(HIDDEN_THRESHOLD + 1), NaN}

\* a row of a matrix: role, visit frequency, format, hidden and one score
\* given to every item
MkRow(id, uloga, cesto, formatUp, hidden, score) ==
    [id |-> id,
     v  |-> [c \in AllCols |->
               CASE c = "uloga"    -> uloga
                 [] c = "cesto"    -> cesto
                 [] c = "formatUp" -> formatUp
                 [] c = "hidden"   -> hidden
                 [] OTHER          -> score]]

\* what filter_data lets through, n rows of it: students who visit
\* frequently, with any format and any hidden value
FilteredMatrices(n) ==
    {[cols |-> cs,
      rows |-> [k \in 1..n |->
                  MkRow(k, STUDENT_ROLE_CODE, FREQUENT_VISITOR_THRESHOLD + 1,
                        fh[k][1], fh[k][2], 1)]] :
       cs \in CsvColumns, fh \in [1..n -> FormatVals \X HiddenVals]}

---------------------------------------------------------------------------
(* The partitioners applied to a filtered matrix *)

\* values of the variables a specification does not use
None == [kind |-> "none"]
IdleMain == pc = "idle" /\ adequacy = None /\ fa = None /\ saved = <<>> /\ out = <<>>
IdleTri  == tri = None
IdleBoot == boot = None
IdleCt   == ct = None

InitPartition ==
    /\ \E n \in 0..MaxRows : \E m \in FilteredMatrices(n) : heap = <<m>>
    /\ matrix = 1
    /\ groups = <<>>
    /\ forms = <<>>
    /\ IdleMain /\ IdleTri /\ IdleBoot /\ IdleCt

\* groups = factor_analysis.prepare_format_groups(matrix)
prepare_format_groups ==
    /\ groups = <<>>
    /\ LET r == FA_PrepareFormatGroups(heap, matrix)
       IN  heap' = r.heap /\ groups' = r.groups
    /\ UNCHANGED <<matrix, forms, pc, adequacy, fa, saved, out, tri, boot, ct>>

\* forms = correlation_heatmaps.prepare_format_groups(matrix)
ch_prepare_format_groups ==
    /\ forms = <<>>
    /\ LET r == CH_PrepareFormatGroups(heap, matrix)
       IN  heap' = r.heap /\ forms' = r.groups
    /\ UNCHANGED <<matrix, groups, pc, adequacy, fa, saved, out, tri, boot, ct>>

NextPartition == prepare_format_groups \/ ch_prepare_format_groups

SpecPartition == InitPartition /\ [][NextPartition]_vars

---------------------------------------------------------------------------
(* Claims about the partitioners (SpecPartition) *)

GroupSizes(refs) == [i \in DOMAIN refs |-> Len(heap[refs[i]].rows)]

IdSeq(df) == [k \in DOMAIN df.rows |-> df.rows[k].id]

\* C1: whatever formatUp and hidden values the rows of the filtered matrix
\* carry, the row counts of the four groups returned by prepare_format_groups
\* (either module's) sum to the row count of the input: every row lands in a
\* group.
C1_RowCountsSumToInput ==
    /\ groups # <<>> => SumSeq(GroupSizes(groups)) = Len(heap[matrix].rows)
    /\ forms # <<>> => SumSeq(GroupSizes(forms)) = Len(heap[matrix].rows)

\* C2: the four groups returned by prepare_format_groups (either module's)
\* are pairwise disjoint: no row of the input appears in two groups.
C2_GroupsPairwiseDisjoint ==
    \A refs \in {groups, forms} :
        \A i, j \in DOMAIN refs :
            i # j => Ids(heap[refs[i]]) \cap Ids(heap[refs[j]]) = {}

\* the condition of group i as the docstring of prepare_format_groups states
\* it, on one row's own formatUp and hidden
OwnValuesCondition(i, row) ==
    LET f == row.v["formatUp"]
        h == row.v["hidden"]
    IN  /\ f # NaN /\ h # NaN
        /\ f = (IF i <= 2 THEN 1 ELSE 2)
        /\ IF i \in {1, 3} THEN h < Num(51) ELSE h > Num(50)

\* C3: in factor_analysis.prepare_format_groups, group i holds exactly the
\* rows of the filtered input whose own formatUp and hidden satisfy condition
\* i, in input order, whatever the groups built earlier in the loop took.
C3_NoCascadingFilters ==
    groups # <<>> =>
        \A i \in DOMAIN groups :
            IdSeq(heap[groups[i]]) =
                IdSeq([cols |-> heap[matrix].cols,
                       rows |-> SelectSeq(heap[matrix].rows,
                                          LAMBDA r : OwnValuesCondition(i, r))])

\* C3's case: a row that an earlier group took is also in a later group
C3_Witness ==
    /\ Len(groups) = NUM_GROUPS
    /\ \E i, j \in DOMAIN groups :
          i < j /\ Ids(heap[groups[i]]) \cap Ids(heap[groups[j]]) # {}

\* C4: every group returned by prepare_format_groups (either module's) has
\* exactly the columns g01..g12, in that order, in its column list and in
\* each of its rows: formatUp and hidden are gone, and the order is the same
\* in all four groups.
C4_GroupColumns ==
    \A refs \in {groups, forms} :
        \A i \in DOMAIN refs :
            /\ heap[refs[i]].cols = QUESTION_COLS
            /\ \A k \in DOMAIN heap[refs[i]].rows :
                  DOMAIN heap[refs[i]].rows[k].v = Range(QUESTION_COLS)

\* C4's case: both partitioners have run on a matrix whose own column order is
\* not that of the item list, and some group has rows
C4_Witness ==
    /\ Len(groups) = NUM_GROUPS /\ Len(forms) = NUM_GROUPS
    /\ heap[matrix].cols[1] = "hidden"
    /\ \E i \in DOMAIN groups : heap[groups[i]].rows # <<>>
    /\ \E i \in DOMAIN forms : heap[forms[i]].rows # <<>>

---------------------------------------------------------------------------
(* factor_analysis: filter_data, perform_adequacy_tests,                   *)
(* perform_factor_analysis                                                 *)

EmptyFrame == [cols |-> <<>>, rows |-> <<>>]

\* filter_data: two boolean selections, each a new object; an empty result is
\* replaced by a new pd.DataFrame()
FA_FilterData(h, m) ==
    LET r1 == NewRef(h, m)
        h1 == Store(h, r1,
                    ApplyMask(h[m], [k \in DOMAIN h[m].rows |->
                                Eq(h[m].rows[k].v["uloga"], STUDENT_ROLE_CODE)]))
        r2 == NewRef(h1, r1)
        h2 == Store(h1, r2,
                    ApplyMask(h1[r1], [k \in DOMAIN h1[r1].rows |->
                                Gt(h1[r1].rows[k].v["cesto"], FREQUENT_VISITOR_THRESHOLD)]))
        r3 == NewRef(h2, r2)
    IN  IF h2[r2].rows = <<>>
        THEN [heap |-> Store(h2, r3, EmptyFrame), ref |-> r3]
        ELSE [heap |-> h2, ref |-> r2]

\* the complete cases of a frame have no usable correlation matrix: fewer than
\* two of them, or an item with the same score in all of them
Degenerate(df) ==
    LET cc == DropNa(df).rows
    IN  \/ Len(cc) < 2
        \/ \E c \in Range(df.cols) : \A k \in DOMAIN cc : cc[k].v[c] = cc[1].v[c]

\* the overall KMO values calculate_kmo may return, in hundredths: the band
\* limits, the values just below them, and the ends of the scale
KmoVals == {0, 49, 50, 59, 60, 69, 70, 79, 80, 89, 90, 100}

\* a bug: the lower bounds are exclusive
KmoInterpretationExclusive(kmo_model) ==
    IF kmo_model > 90 THEN "Marvelous"
    ELSE IF kmo_model > 80 THEN "Meritorious"
    ELSE IF kmo_model > 70 THEN "Middling"
    ELSE IF kmo_model > 60 THEN "Mediocre"
    ELSE IF kmo_model > 50 THEN "Miserable"
    ELSE "Unacceptable"

\* if kmo_model >= 0.9: ... elif ... else: "Unacceptable" (kmo_model in
\* hundredths; every comparison with NaN is false)
KmoInterpretation(kmo_model) ==
    IF kmo_model # NaN /\ kmo_model >= 90 THEN "Marvelous"
    ELSE IF kmo_model # NaN /\ kmo_model >= 80 THEN "Meritorious"
    ELSE IF kmo_model # NaN /\ kmo_model >= 70 THEN "Middling"
    ELSE IF kmo_model # NaN /\ kmo_model >= 60 THEN "Mediocre"
    ELSE IF kmo_model # NaN /\ kmo_model >= 50 THEN "Miserable"
    ELSE "Unacceptable"

\* perform_adequacy_tests: grid = matrix[cols].copy(); faktor = grid.dropna();
\* then the library's statistics of faktor, whatever the number of its rows,
\* the interpretation of the overall KMO, and the return of the statistics.
\* The statistics are the factor_analyzer library's: on degenerate data they
\* come back as NaN or the call raises, otherwise the overall KMO is some
\* value of the scale.  'on' is the argument, 'calculated' what calculate_kmo
\* gave, 'kmo_model' what is returned.
FA_PerformAdequacyTests(h, m) ==
    LET gridRef == NewRef(h, m)
        h1      == Store(h, gridRef, SelectCols(h[m], QUESTION_COLS))
        fRef    == NewRef(h1, gridRef)
        h2      == Store(h1, fRef, DropNa(h1[gridRef]))
        Returned(kind, k) ==
            [kind |-> kind, on |-> m, cases |-> Ids(h2[fRef]), calculated |-> k,
             interpretation |-> KmoInterpretation(k), kmo_model |-> k]
    IN  [heap     |-> h2,
         outcomes |-> IF Degenerate(h2[fRef])
                      THEN {[kind |-> "raised", on |-> m, cases |-> Ids(h2[fRef])],
                            Returned("nan", NaN)}
                      ELSE {Returned("ok", k) : k \in KmoVals}]

\* fa.fit(group) with impute='drop' raises when the complete cases of the group
\* have no usable correlation matrix
FitRaises(group) == Degenerate(group)

\* fa.get_eigenvalues() of a fitted analyzer: the eigenvalues of the
\* correlation matrix of the complete cases, and those of the common-factor
\* solution.  A spectrum is given by the number of its entries and by what
\* they add up to: the trace of the correlation matrix (one for each item,
\* every item varying when the fit succeeded) for the first, the
\* communalities for the second.
GetEigenvalues(group) ==
    LET cc == DropNa(group).rows
        Varies(c) == \E k \in DOMAIN cc : cc[k].v[c] # cc[1].v[c]
    IN  << [count |-> Len(group.cols),
            sum   |-> [of |-> "trace",
                       value |-> Cardinality({c \in Range(group.cols) : Varies(c)})]],
           [count |-> Len(group.cols), sum |-> [of |-> "communalities"]] >>

\* a bug: the common-factor eigenvalues are kept
EigenvaluesCommon(group) == GetEigenvalues(group)[2]

\* ev, _ = fa.get_eigenvalues()
Eigenvalues(group) == GetEigenvalues(group)[1]

\* what one fitted FactorAnalyzer yields: loadings_ (items x n_factors) and
\* the eigenvalues, both of the group's complete cases, under the settings
\* the analyzer was built with
FitResult(group) ==
    [cases    |-> Ids(DropNa(group)),
     items    |-> group.cols,
     factors  |-> NUM_FACTORS,
     rotation |-> "varimax",
     method   |-> "principal",
     ev       |-> Eigenvalues(group)]

\* a bug: a new entry goes to the front of the list
CollectFront(list, x) == <<x>> \o list

\* loadings.append(...), eigenvalues.append(...)
Collect(list, x) == Append(list, x)

\* perform_factor_analysis: for i, group in enumerate(groups): fit, append the
\* loadings, append the eigenvalues.  Nothing catches what fit raises: the
\* exception leaves the loop and the function.
RECURSIVE FA_FactorLoop(_, _, _, _, _)
FA_FactorLoop(h, refs, i, loadings, eigenvalues) ==
    IF i > Len(refs)
    THEN [kind |-> "returned", loadings |-> loadings, eigenvalues |-> eigenvalues]
    ELSE IF FitRaises(h[refs[i]])
         THEN [kind |-> "raised", at |-> i]
         ELSE FA_FactorLoop(h, refs, i + 1,
                            Collect(loadings, FitResult(h[refs[i]])),
                            Collect(eigenvalues, FitResult(h[refs[i]])))

FA_PerformFactorAnalysis(h, refs) == FA_FactorLoop(h, refs, 1, <<>>, <<>>)

---------------------------------------------------------------------------
(* factor_analysis.main *)

\* rows per experimental group in a raw input matrix
MaxGroupRows == 2

\* the (formatUp, hidden) of the rows meant for each of the four groups
GroupKeys ==
    << <<1, Num(HIDDEN_THRESHOLD)>>, <<1, Num(HIDDEN_THRESHOLD + 1)>>,
       <<2, Num(HIDDEN_THRESHOLD)>>, <<2, Num(HIDDEN_THRESHOLD + 1)>> >>

\* the item scores of one group's rows: alternating, all equal, or only the
\* first row answered
ScoreSeqs ==
    UNION {{[k \in 1..n |-> 1 + ((k + 1) % 2)],
            [k \in 1..n |-> 1],
            [k \in 1..n |-> IF k = 1 THEN 1 ELSE NaN]} : n \in 0..MaxGroupRows}

\* rows in front of the groups' rows: none; a non-student and an infrequent
\* visitor; a frequent student whose formatUp is neither 1 nor 2
PreRows ==
    { <<>>,
      << <<STUDENT_ROLE_CODE - 1, FREQUENT_VISITOR_THRESHOLD + 1, 1, Num(HIDDEN_THRESHOLD), 1>>,
         <<STUDENT_ROLE_CODE, FREQUENT_VISITOR_THRESHOLD, 2, Num(HIDDEN_THRESHOLD + 1), 2>> >>,
      << <<STUDENT_ROLE_CODE, FREQUENT_VISITOR_THRESHOLD + 1, 3, Num(HIDDEN_THRESHOLD), 2>> >> }

GroupBlock(g, scores) ==
    [k \in DOMAIN scores |->
        <<STUDENT_ROLE_CODE, FREQUENT_VISITOR_THRESHOLD + 1,
          GroupKeys[g][1], GroupKeys[g][2], scores[k]>>]

\* a matrix as pd.read_csv returns it: the columns in the order cs, the rows
\* pre in front, then the rows of the four groups with the item scores sc
RawMatrix(cs, pre, sc) ==
    [cols |-> cs,
     rows |-> LET t == pre \o GroupBlock(1, sc[1]) \o GroupBlock(2, sc[2])
                           \o GroupBlock(3, sc[3]) \o GroupBlock(4, sc[4])
              IN  [k \in DOMAIN t |-> MkRow(k, t[k][1], t[k][2], t[k][3], t[k][4], t[k][5])]]

\* what pd.read_csv may return, with the columns in the order cs
RawMatrices(cs) ==
    {RawMatrix(cs, pre, sc) : pre \in PreRows, sc \in [1..NUM_GROUPS -> ScoreSeqs]}

InitMain ==
    /\ \E cs \in CsvColumns : \E m \in RawMatrices(cs) : heap = <<m>>
    /\ matrix = 0
    /\ groups = <<>>
    /\ forms = <<>>
    /\ pc = "loaded"
    /\ adequacy = None /\ fa = None /\ saved = <<>> /\ out = <<>>
    /\ IdleTri /\ IdleBoot /\ IdleCt

\* filtered_matrix = filter_data(matrix); if filtered_matrix.empty: return
main_filter_data ==
    /\ pc = "loaded"
    /\ LET r == FA_FilterData(heap, 1)
       IN  /\ heap' = r.heap
           /\ matrix' = r.ref
           /\ IF r.heap[r.ref].rows = <<>>
              THEN pc' = "returned" /\ out' = Append(out, "Error: No data left after filtering.")
              ELSE pc' = "filtered" /\ out' = Append(out, "filter_data")
    /\ UNCHANGED <<groups, forms, adequacy, fa, saved, tri, boot, ct>>

\* a bug: the check for empty groups finds none
AnyGroupEmptyIgnored(h, gs) == FALSE

\* any(len(group) == 0 for group in groups)
AnyGroupEmpty(h, gs) == \E i \in DOMAIN gs : Len(h[gs[i]].rows) = 0

\* groups = prepare_format_groups(filtered_matrix);
\* if any(len(group) == 0 for group in groups): print error; return
main_prepare_format_groups ==
    /\ pc = "filtered"
    /\ LET r == FA_PrepareFormatGroups(heap, matrix)
       IN  /\ heap' = r.heap
           /\ groups' = r.groups
           /\ IF AnyGroupEmpty(r.heap, r.groups)
              THEN /\ pc' = "returned"
                   /\ out' = out \o <<"prepare_format_groups",
                                      "Error: One or more groups have no data.">>
              ELSE /\ pc' = "grouped"
                   /\ out' = Append(out, "prepare_format_groups")
    /\ UNCHANGED <<matrix, forms, adequacy, fa, saved, tri, boot, ct>>

\* chi_square, p_value, kmo_model = perform_adequacy_tests(filtered_matrix)
main_perform_adequacy_tests ==
    /\ pc = "grouped"
    /\ LET r == FA_PerformAdequacyTests(heap, matrix)
       IN  /\ heap' = r.heap
           /\ \E o \in r.outcomes :
                 /\ adequacy' = o
                 /\ pc' = IF o.kind = "raised" THEN "raised" ELSE "adequate"
    /\ out' = Append(out, "perform_adequacy_tests")
    /\ UNCHANGED <<matrix, groups, forms, fa, saved, tri, boot, ct>>

\* loadings, eigenvalues = perform_factor_analysis(groups)
main_perform_factor_analysis ==
    /\ pc = "adequate"
    /\ fa' = FA_PerformFactorAnalysis(heap, groups)
    /\ pc' = IF fa'.kind = "raised" THEN "raised" ELSE "analysed"
    /\ out' = Append(out, "perform_factor_analysis")
    /\ UNCHANGED <<heap, matrix, groups, forms, adequacy, saved, tri, boot, ct>>

\* create_scree_plot(eigenvalues, groups)
main_create_scree_plot ==
    /\ pc = "analysed"
    /\ pc' = "scree"
    /\ out' = Append(out, "create_scree_plot")
    /\ UNCHANGED <<heap, matrix, groups, forms, adequacy, fa, saved, tri, boot, ct>>

\* create_loadings_heatmaps(loadings)
main_create_loadings_heatmaps ==
    /\ pc = "scree"
    /\ pc' = "heatmaps"
    /\ out' = Append(out, "create_loadings_heatmaps")
    /\ UNCHANGED <<heap, matrix, groups, forms, adequacy, fa, saved, tri, boot, ct>>

\* save_loadings_to_csv(loadings[0], 0) ... save_loadings_to_csv(loadings[3], 3)
main_save_loadings_to_csv ==
    /\ pc = "heatmaps"
    /\ Len(saved) < NUM_GROUPS
    /\ saved' = Append(saved, [group_index |-> Len(saved),
                               loadings    |-> fa.loadings[Len(saved) + 1]])
    /\ out' = Append(out, "save_loadings_to_csv")
    /\ UNCHANGED <<heap, matrix, groups, forms, pc, adequacy, fa, tri, boot, ct>>

\* print_summary(chi_square, p_value, kmo_model, eigenvalues)
main_print_summary ==
    /\ pc = "heatmaps"
    /\ Len(saved) = NUM_GROUPS
    /\ pc' = "done"
    /\ out' = Append(out, "print_summary")
    /\ UNCHANGED <<heap, matrix, groups, forms, adequacy, fa, saved, tri, boot, ct>>

NextMain ==
    \/ main_filter_data
    \/ main_prepare_format_groups
    \/ main_perform_adequacy_tests
    \/ main_perform_factor_analysis
    \/ main_create_scree_plot
    \/ main_create_loadings_heatmaps
    \/ main_save_loadings_to_csv
    \/ main_print_summary

SpecMain == InitMain /\ [][NextMain]_vars

\* main has ended: it returned early, ran to its end, or an exception left it
MainEnded == pc \in {"returned", "done", "raised"}

\* C5: when one of the four groups is empty, main reports it, skips the
\* analyses of that group only, and still completes the adequacy tests and the
\* factor extraction for the non-empty groups: the empty group does not abort
\* the pipeline.
C5_EmptyGroupDoesNotAbort ==
    ( /\ MainEnded
      /\ Len(groups) = NUM_GROUPS
      /\ \E i \in DOMAIN groups : heap[groups[i]].rows = <<>>
      /\ \E i \in DOMAIN groups : heap[groups[i]].rows # <<>> )
    => /\ adequacy.kind # "none"
       /\ fa.kind # "none"

\* C6: when the fit of one group fails in perform_factor_analysis, the other
\* groups are still analysed: once the call has ended there is a loadings
\* entry for every group whose own fit does not fail.
C6_FitFailureIsLocal ==
    fa.kind # "none" =>
        \A j \in DOMAIN groups :
            ~FitRaises(heap[groups[j]]) =>
                /\ fa.kind = "returned"
                /\ \E l \in DOMAIN fa.loadings :
                      fa.loadings[l].cases = Ids(DropNa(heap[groups[j]]))

---------------------------------------------------------------------------
(* correlation_heatmaps.get_upper_triangle *)

\* side length of the square arrays handed to get_upper_triangle
MaxN == 3

\* a bug: the diagonal is kept (k = 0)
UpperMaskWithDiagonal(i, j) == j - i >= 0

\* np.triu_indices(n, k=1) keeps the positions with j - i >= 1
UpperMask(i, j) == j - i >= 1

\* the positions of an n x n array in row-major order (np.nonzero's order)
RowMajor(n) == [p \in 1..(n * n) |-> <<((p - 1) \div n) + 1, ((p - 1) % n) + 1>>]

\* mask = np.triu_indices(df.shape[0], k=1)
TriuIndices(n) == SelectSeq(RowMajor(n), LAMBDA ij : UpperMask(ij[1], ij[2]))

\* get_upper_triangle(df): df[mask], a new one-dimensional array; anything
\* that is neither an ndarray nor a DataFrame raises TypeError
GetUpperTriangle(obj) ==
    IF obj.type \notin {"ndarray", "DataFrame"}
    THEN [kind |-> "raised", error |-> "TypeError"]
    ELSE LET mask == TriuIndices(Len(obj.values))
         IN  [kind   |-> "returned",
              values |-> [p \in DOMAIN mask |-> obj.values[mask[p][1]][mask[p][2]]]]

TriVals == {0, 1}

\* the argument is a square array of side 0..MaxN, as an ndarray, as a
\* DataFrame, or as a plain list
TriTypes == {"ndarray", "DataFrame", "list"}

InitTriangle ==
    /\ heap = <<>> /\ matrix = 0 /\ groups = <<>> /\ forms = <<>>
    /\ IdleMain /\ IdleBoot /\ IdleCt
    /\ \E n \in 0..MaxN, t \in TriTypes :
          \E M \in [1..n -> [1..n -> TriVals]] :
              tri = [kind |-> "call", df |-> [type |-> t, values |-> M]]

get_upper_triangle ==
    /\ tri.kind = "call"
    /\ tri' = [kind |-> "done", df |-> tri.df, result |-> GetUpperTriangle(tri.df)]
    /\ UNCHANGED <<heap, matrix, groups, forms, pc, adequacy, fa, saved, out, boot, ct>>

NextTriangle == get_upper_triangle

SpecTriangle == InitTriangle /\ [][NextTriangle]_vars

\* the place of position (i, j), i < j, among the positions above the
\* diagonal of an n x n array read row by row
UpperRank(i, j, n) ==
    Cardinality({pq \in (1..n) \X (1..n) :
                    /\ pq[1] < pq[2]
                    /\ (pq[1] < i \/ (pq[1] = i /\ pq[2] <= j))})

\* C8: for an n x n array get_upper_triangle returns n(n-1)/2 values, the
\* entries at the positions (i, j) with i < j in row-major order and nothing
\* else (no diagonal entry, no entry below the diagonal); for n < 2 the
\* result is empty.
C8_UpperTriangle ==
    (tri.kind = "done" /\ tri.df.type \in {"ndarray", "DataFrame"}) =>
        LET n == Len(tri.df.values)
            r == tri.result
        IN  /\ r.kind = "returned"
            /\ 2 * Len(r.values) = n * (n - 1)
            /\ (n < 2 => r.values = <<>>)
            /\ \A i, j \in 1..n :
                  i < j => r.values[UpperRank(i, j, n)] = tri.df.values[i][j]

\* C8's case: a result for an array of the largest side whose entries on and
\* below the diagonal all differ from those above it
C8_Witness ==
    /\ tri.kind = "done"
    /\ tri.df.type = "DataFrame"
    /\ Len(tri.df.values) = MaxN
    /\ \A i, j \in 1..MaxN : tri.df.values[i][j] = (IF i < j THEN 1 ELSE 0)
    /\ tri.result.kind = "returned"
    /\ Len(tri.result.values) > 1

---------------------------------------------------------------------------
(* correlation_heatmaps.bootstrap_correlation and run_bootstrap_analysis *)

\* rows of a group handed to the bootstrap
MaxFormRows == 3
\* n_iterations of run_bootstrap_analysis
MaxIterations == 2
\* item columns of a group handed to the bootstrap (the first of QUESTION_COLS)
MaxFormCols == 2

\* frac=0.6
FracNum == 6
FracDen == 10

\* Python's round(): to the nearest integer, a tie to the even one
RoundHalfEven(num, den) ==
    LET q == num \div den
        r == num % den
    IN  IF 2 * r < den THEN q
        ELSE IF 2 * r > den THEN q + 1
        ELSE IF q % 2 = 0 THEN q ELSE q + 1

\* DataFrame.sample(frac=0.6): round(frac * len(df)) rows
SampleSize(df) == RoundHalfEven(FracNum * Len(df.rows), FracDen)

\* the draws sample() can make, each the set of index labels it picked
\* (without replacement: a label is picked at most once)
Draws(df) == {S \in SUBSET Ids(df) : Cardinality(S) = SampleSize(df)}

\* the rows of df that a draw picked
Sample(df, S) == ApplyMask(df, [k \in DOMAIN df.rows |-> df.rows[k].id \in S])

\* a bug: the second resample is taken from the first matrix
SecondSourceIsFirst(mat1, mat2) == mat1

\* df_2 = mat2.sample(frac=0.6)
SecondSource(mat1, mat2) == mat2

\* a column has no rank correlation with another when fewer than two rows
\* have both values or when it does not vary over them
NoVariation(df, c, d) ==
    LET both == SelectSeq(df.rows, LAMBDA r : r.v[c] # NaN /\ r.v[d] # NaN)
    IN  \/ Len(both) < 2
        \/ \A k \in DOMAIN both : both[k].v[c] = both[1].v[c]
        \/ \A k \in DOMAIN both : both[k].v[d] = both[1].v[d]

\* df.corr(method='kendall'): a new square DataFrame over the columns; an
\* entry is NaN where the rank correlation is undefined, and otherwise stands
\* for Kendall's tau of the two columns over the rows of df
Corr(df) ==
    [type   |-> "DataFrame",
     values |-> [i \in DOMAIN df.cols |-> [j \in DOMAIN df.cols |->
                    IF NoVariation(df, df.cols[i], df.cols[j])
                    THEN [tau |-> "nan"]
                    ELSE [tau |-> "of", x |-> df.cols[i], y |-> df.cols[j],
                          rows |-> Ids(df)]]]]

\* stats.kendalltau(x, y).statistic with the default nan_policy: NaN for
\* empty arrays, NaN as soon as a value is NaN, and otherwise the rank
\* correlation of x and y
KendallTau(x, y) ==
    IF Len(x) = 0 \/ Len(y) = 0 THEN "nan"
    ELSE IF \E p \in DOMAIN x : x[p].tau = "nan" THEN "nan"
    ELSE IF \E p \in DOMAIN y : y[p].tau = "nan" THEN "nan"
    ELSE "tau"

\* bootstrap_correlation(mat1, mat2) with the draws S1 and S2 of its two
\* sample() calls
BootstrapCorrelation(h, mat1, mat2, S1, S2) ==
    LET r1 == NewRef(h, mat1)
        h1 == Store(h, r1, Sample(h[mat1], S1))
        r2 == NewRef(h1, mat2)
        h2 == Store(h1, r2, Sample(h1[SecondSource(mat1, mat2)], S2))
        t1 == GetUpperTriangle(Corr(h2[r1]))
        t2 == GetUpperTriangle(Corr(h2[r2]))
    IN  [heap      |-> h2,
         df_1      |-> IdSeq(h2[r1]),
         df_2      |-> IdSeq(h2[r2]),
         statistic |-> KendallTau(t1.values, t2.values)]

\* the item columns of the groups handed to run_bootstrap_analysis
FormCols == SubSeq(QUESTION_COLS, 1, MaxFormCols)

\* the four groups handed to run_bootstrap_analysis: group g has sizes[g]
\* rows, with index labels of its own and alternating scores
FormFrame(g, n) ==
    [cols |-> FormCols,
     rows |-> [k \in 1..n |->
                 [id |-> (g - 1) * (MaxFormRows + 1) + k,
                  v  |-> [c \in Range(FormCols) |-> 1 + (k % 2)]]]]

\* the groups differ in size: 1, 2, ... rows, and none past MaxFormRows
FormSize(g) == g % (MaxFormRows + 1)

\* a bug: the inner loop starts at the first group for every a
FirstBZero(a) == 0

\* for b in range(a, 4)
FirstB(a) == a

\* np.percentile(bootr, 2.5) and np.mean(bootr): of an empty list numpy either
\* returns NaN or raises IndexError, depending on its version
Percentile(bootr) == IF bootr = <<>> THEN {"nan", "IndexError"} ELSE {"value"}

\* run_bootstrap_analysis(forms, n_iterations) is called: n_iterations is the
\* caller's, and range(n_iterations) is empty when it is 0
InitBootstrap ==
    /\ heap = [g \in 1..NUM_GROUPS |-> FormFrame(g, FormSize(g))]
    /\ matrix = 0
    /\ groups = <<>>
    /\ forms = [g \in 1..NUM_GROUPS |-> g]
    /\ IdleMain /\ IdleTri /\ IdleCt
    /\ \E n \in 0..MaxIterations :
          boot = [kind |-> "run", n_iterations |-> n, a |-> 0, b |-> FirstB(0), run |-> 1,
                  i |-> 0, acc |-> <<>>, bootr |-> <<>>, printed |-> None,
                  last |-> None, calls |-> 0, visits |-> <<>>]

\* a bug: the second run goes on with the list of the first
NewListKeepsOld(bootr) == bootr

\* bootr = [... for _ in range(n_iterations)]: the comprehension starts from
\* an empty list, whatever bootr holds
NewList(bootr) == <<>>

\* one iteration of a list comprehension: a call of bootstrap_correlation on
\* forms[a], forms[b], its statistic appended
boot_iteration ==
    /\ boot.kind = "run"
    /\ boot.i < boot.n_iterations
    /\ LET mat1 == forms[boot.a + 1]
           mat2 == forms[boot.b + 1]
       IN  \E S1 \in Draws(heap[mat1]), S2 \in Draws(heap[SecondSource(mat1, mat2)]) :
              LET r == BootstrapCorrelation(heap, mat1, mat2, S1, S2)
              IN  /\ heap' = SubSeq(r.heap, 1, Len(heap))
                  /\ boot' = [boot EXCEPT
                                !.i = @ + 1,
                                !.acc = Append(IF boot.i = 0 THEN NewList(boot.bootr) ELSE @,
                                               [statistic |-> r.statistic,
                                                mat1 |-> mat1, mat2 |-> mat2,
                                                a |-> boot.a, b |-> boot.b,
                                                run |-> boot.run, i |-> boot.i]),
                                !.last = [kind |-> "call", mat1 |-> mat1, mat2 |-> mat2,
                                          df_1 |-> r.df_1, df_2 |-> r.df_2,
                                          result |-> [kind |-> "returned",
                                                      statistic |-> r.statistic]],
                                !.calls = @ + 1]
    /\ UNCHANGED <<matrix, groups, forms, pc, adequacy, fa, saved, out, tri, ct>>

\* the comprehension is complete: bootr is bound to it, the interval of bootr
\* is printed, and the loops move on (second run, next b, next a, end); when
\* np.percentile raises, the exception leaves the function
boot_print ==
    /\ boot.kind = "run"
    /\ boot.i = boot.n_iterations
    /\ LET next == IF boot.run = 1
                   THEN [a |-> boot.a, b |-> boot.b, run |-> 2, kind |-> "run"]
                   ELSE IF boot.b < NUM_GROUPS - 1
                   THEN [a |-> boot.a, b |-> boot.b + 1, run |-> 1, kind |-> "run"]
                   ELSE IF boot.a < NUM_GROUPS - 1
                   THEN [a |-> boot.a + 1, b |-> FirstB(boot.a + 1), run |-> 1, kind |-> "run"]
                   ELSE [a |-> boot.a, b |-> boot.b, run |-> boot.run, kind |-> "returned"]
       IN  \E o \in Percentile(boot.acc) :
              IF o = "IndexError"
              THEN boot' = [boot EXCEPT !.bootr = boot.acc, !.acc = <<>>, !.kind = "raised"]
              ELSE boot' = [boot EXCEPT
                      !.bootr = boot.acc,
                      !.printed = [kind |-> "interval", a |-> boot.a, b |-> boot.b,
                                   run |-> boot.run, bootr |-> boot.acc],
                      !.visits = Append(@, <<boot.a, boot.b, boot.run>>),
                      !.acc = <<>>,
                      !.i = 0,
                      !.a = next.a, !.b = next.b, !.run = next.run, !.kind = next.kind]
    /\ UNCHANGED <<heap, matrix, groups, forms, pc, adequacy, fa, saved, out, tri, ct>>

\* the run is stopped between two iterations (KeyboardInterrupt): the
\* exception leaves the comprehension, whose unfinished list is bound to no
\* name, and the function; bootr is what it was
boot_interrupt ==
    /\ boot.kind = "run"
    /\ boot.i < boot.n_iterations
    /\ boot' = [boot EXCEPT !.kind = "interrupted", !.acc = <<>>]
    /\ UNCHANGED <<heap, matrix, groups, forms, pc, adequacy, fa, saved, out, tri, ct>>

NextBootstrap == boot_iteration \/ boot_print \/ boot_interrupt

SpecBootstrap == InitBootstrap /\ [][NextBootstrap]_vars

\* a resample of source: rows of source, none twice, round(0.6 x rows) of them
IsResampleOf(ids, source) ==
    /\ Range(ids) \subseteq Ids(source)
    /\ Cardinality(Range(ids)) = Len(ids)
    /\ 2 * (FracDen * Len(ids) - FracNum * Len(source.rows)) \in (0 - FracDen)..FracDen

\* C9: in every call of bootstrap_correlation each of the two resamples is
\* drawn without replacement from its own source matrix: it consists of
\* distinct rows of that source and has round(0.6 x source rows) rows, also
\* when both arguments are the same group.
C9_ResamplesOfOwnSource ==
    boot.kind # "none" =>
        (boot.last.kind = "call" =>
            /\ IsResampleOf(boot.last.df_1, heap[boot.last.mat1])
            /\ IsResampleOf(boot.last.df_2, heap[boot.last.mat2]))

\* C9's case: a group compared with itself, and the two resamples differ
C9_Witness ==
    /\ boot.kind = "run"
    /\ boot.last.kind = "call"
    /\ boot.last.mat1 = boot.last.mat2
    /\ boot.last.df_1 # boot.last.df_2
    /\ Len(boot.last.df_1) > 1

\* C10: every interval run_bootstrap_analysis prints is computed from exactly
\* n_iterations samples, the results of the calls of bootstrap_correlation on
\* that pair's two groups in that run, in iteration order: no sample of
\* another pair or of an earlier run is among them.
C10_IntervalFromOwnSamples ==
    boot.kind # "none" =>
        (boot.printed.kind = "interval" =>
            /\ Len(boot.printed.bootr) = boot.n_iterations
            /\ \A k \in DOMAIN boot.printed.bootr :
                  LET e == boot.printed.bootr[k]
                  IN  /\ e.a = boot.printed.a /\ e.b = boot.printed.b
                      /\ e.run = boot.printed.run
                      /\ e.i = k - 1
                      /\ e.mat1 = forms[boot.printed.a + 1]
                      /\ e.mat2 = forms[boot.printed.b + 1])

\* C10's case: the second run of a pair of two different groups is printed,
\* after other pairs and the first run, with more than one iteration
C10_Witness ==
    /\ boot.kind # "none"
    /\ boot.printed.kind = "interval"
    /\ boot.printed.run = 2
    /\ boot.printed.a = 1 /\ boot.printed.b = 2
    /\ boot.n_iterations = MaxIterations
    /\ Len(boot.printed.bootr) > 1

---------------------------------------------------------------------------
(* The five functions called in any order on one filtered matrix *)

\* the (formatUp, hidden) of the rows of the matrices used here: one row for
\* Order A, one between the two thresholds, one for Order B, one in no group
FrameKeys ==
    << <<1, Num(HIDDEN_THRESHOLD)>>, <<1, Num(HIDDEN_THRESHOLD) + 1>>,
       <<2, Num(HIDDEN_THRESHOLD + 1)>>, <<3, NaN>> >>

FrameMatrices ==
    {[cols |-> cs,
      rows |-> [k \in 1..n |->
                  MkRow(k, STUDENT_ROLE_CODE, FREQUENT_VISITOR_THRESHOLD + 1,
                        FrameKeys[((s + k) % Len(FrameKeys)) + 1][1],
                        FrameKeys[((s + k) % Len(FrameKeys)) + 1][2],
                        1 + (k % 2))]] :
       cs \in CsvColumns, n \in 0..MaxRows, s \in DOMAIN FrameKeys}

\* the array handed to get_upper_triangle here: a unit matrix of side MaxN
UnitMatrix ==
    [type   |-> "ndarray",
     values |-> [i \in 1..MaxN |-> [j \in 1..MaxN |-> IF i = j THEN 1 ELSE 0]]]

InitFrame ==
    /\ \E m \in FrameMatrices : heap = <<m>>
    /\ matrix = 1
    /\ groups = <<>>
    /\ forms = <<>>
    /\ IdleMain /\ IdleBoot /\ IdleCt
    /\ tri = [kind |-> "call", df |-> UnitMatrix]

\* perform_adequacy_tests(matrix); its grid and faktor are gone on return
perform_adequacy_tests ==
    /\ LET r == FA_PerformAdequacyTests(heap, matrix)
       IN  /\ heap' = SubSeq(r.heap, 1, Len(heap))
           /\ \E o \in r.outcomes : adequacy' = [kind |-> o.kind, on |-> o.on]
    /\ UNCHANGED <<matrix, groups, forms, pc, fa, saved, out, tri, boot, ct>>

\* perform_factor_analysis(groups)
perform_factor_analysis ==
    /\ groups # <<>>
    /\ fa' = FA_PerformFactorAnalysis(heap, groups)
    /\ UNCHANGED <<heap, matrix, groups, forms, pc, adequacy, saved, out, tri, boot, ct>>

\* bootstrap_correlation(forms[a], forms[b]); its resamples and correlation
\* matrices are gone on return
bootstrap_correlation ==
    /\ forms # <<>>
    /\ \E a \in DOMAIN forms, b \in DOMAIN forms :
          \E S1 \in Draws(heap[forms[a]]),
             S2 \in Draws(heap[SecondSource(forms[a], forms[b])]) :
              LET r == BootstrapCorrelation(heap, forms[a], forms[b], S1, S2)
              IN  /\ heap' = SubSeq(r.heap, 1, Len(heap))
                  /\ boot' = [kind |-> "called", statistic |-> r.statistic]
    /\ UNCHANGED <<matrix, groups, forms, pc, adequacy, fa, saved, out, tri, ct>>

NextFrame ==
    \/ prepare_format_groups
    \/ ch_prepare_format_groups
    \/ perform_adequacy_tests
    \/ perform_factor_analysis
    \/ get_upper_triangle
    \/ bootstrap_correlation

SpecFrame == InitFrame /\ [][NextFrame]_vars

\* C7: none of prepare_format_groups, perform_adequacy_tests,
\* perform_factor_analysis, get_upper_triangle and bootstrap_correlation
\* changes an object that exists when it is called: the filtered matrix keeps
\* its rows, its columns (formatUp and hidden among them) and its values, the
\* groups keep theirs, and the array given to get_upper_triangle is the same
\* afterwards.
C7_InputsNotMutated ==
    [][ /\ \A r \in DOMAIN heap : heap'[r] = heap[r]
        /\ tri'.df = tri.df ]_vars

\* C7's case: all five functions have been called on a matrix with rows, and
\* the matrix still has its auxiliary and its other columns
C7_Witness ==
    /\ Len(groups) = NUM_GROUPS /\ Len(forms) = NUM_GROUPS
    /\ adequacy.kind # "none"
    /\ fa.kind # "none"
    /\ tri.kind = "done"
    /\ boot.kind = "called"
    /\ Len(heap[matrix].rows) = MaxRows
    /\ {"formatUp", "hidden", "uloga"} \subseteq Range(heap[matrix].cols)
    /\ \E i \in DOMAIN forms : heap[forms[i]].rows # <<>>

---------------------------------------------------------------------------
(* bootstrap_correlation on resamples too small for a correlation *)

\* C11: a call of bootstrap_correlation in which a resample has fewer than
\* two rows (a source of 0, 1 or 2 rows) fails instead of returning a
\* statistic.
C11_SmallResampleFails ==
    boot.kind # "none" =>
        (boot.last.kind = "call" =>
            ((Len(boot.last.df_1) < 2 \/ Len(boot.last.df_2) < 2) =>
                boot.last.result.kind = "raised"))

---------------------------------------------------------------------------
(* run_bootstrap_analysis: configuration, reproducibility, interruption,   *)
(* order of the pairs                                                      *)

\* C12: run_bootstrap_analysis called with n_iterations < 1 is rejected at
\* call time: it never prints a pair's interval and never returns normally.
C12_InvalidConfigurationRejected ==
    boot.kind # "none" =>
        (boot.n_iterations < 1 =>
            /\ boot.printed.kind = "none"
            /\ boot.kind # "returned")

\* the statistics of a list of samples, in order
Statistics(bootr) == [k \in DOMAIN bootr |-> bootr[k].statistic]

\* C13: two runs of the estimator on the same two matrices produce the same
\* sequence of samples: when the second run of a pair is complete, its
\* samples are those of the first run.
C13_RunsReproducible ==
    boot.kind # "none" =>
        ((boot.kind = "run" /\ boot.run = 2 /\ boot.i = boot.n_iterations) =>
            Statistics(boot.acc) = Statistics(boot.bootr))

\* C19: when a run is interrupted after k iterations, the k samples computed
\* so far are available as a partial result.
C19_PartialResultKept ==
    boot.kind # "none" =>
        (boot.kind = "interrupted" =>
            /\ Len(boot.bootr) = boot.i
            /\ \A k \in DOMAIN boot.bootr :
                  /\ boot.bootr[k].a = boot.a /\ boot.bootr[k].b = boot.b
                  /\ boot.bootr[k].run = boot.run)

\* the pairs (a, b) with 0 <= a <= b <= 3 in lexicographic order
PairSeq ==
    SelectSeq([p \in 1..(NUM_GROUPS * NUM_GROUPS) |->
                 <<(p - 1) \div NUM_GROUPS, (p - 1) % NUM_GROUPS>>],
              LAMBDA ab : ab[1] <= ab[2])

\* two runs for each pair, the first before the second
ExpectedVisits ==
    [k \in 1..(2 * Len(PairSeq)) |->
        <<PairSeq[(k + 1) \div 2][1], PairSeq[(k + 1) \div 2][2], 2 - (k % 2)>>]

\* C20: run_bootstrap_analysis visits the ten pairs (a, b), 0 <= a <= b <= 3,
\* once each in lexicographic order, two runs of n_iterations iterations for
\* each pair before the next, so that bootstrap_correlation has been called
\* n_iterations times for every completed run and 20 x n_iterations times
\* when the function returns.
C20_PairsInOrder ==
    boot.kind # "none" =>
        /\ Len(boot.visits) <= Len(ExpectedVisits)
        /\ boot.visits = SubSeq(ExpectedVisits, 1, Len(boot.visits))
        /\ boot.calls = boot.n_iterations * Len(boot.visits) + boot.i
        /\ boot.kind = "returned" =>
              /\ boot.visits = ExpectedVisits
              /\ boot.calls = NUM_GROUPS * (NUM_GROUPS + 1) * boot.n_iterations

\* C20's case: the function has returned after all its runs of more than one
\* iteration each
C20_Witness ==
    /\ boot.kind = "returned"
    /\ boot.n_iterations = MaxIterations
    /\ Len(boot.visits) = NUM_GROUPS * (NUM_GROUPS + 1)
    /\ boot.calls = NUM_GROUPS * (NUM_GROUPS + 1) * MaxIterations

---------------------------------------------------------------------------
(* main: the adequacy tests *)

\* C14: with fewer than (items + 1) complete rows perform_adequacy_tests
\* reports a failure of the adequacy component without computing the
\* statistics, and the pipeline goes on.
C14_TooFewRowsReported ==
    adequacy.kind # "none" =>
        (Cardinality(adequacy.cases) < Len(QUESTION_COLS) + 1 =>
            /\ adequacy.kind = "failed"
            /\ pc # "raised")

\* C15: in the pipeline perform_adequacy_tests is applied to the groups the
\* partitioner produced, each on its own rows: whatever it was applied to is
\* one of the four groups.
C15_AdequacyPerGroup ==
    adequacy.kind # "none" => adequacy.on \in Range(groups)

---------------------------------------------------------------------------
(* main on matrices whose four groups can all be analysed *)

\* item scores of a group that fit() accepts: at least two rows, all
\* answered, not all the same
VaryingScoreSeqs ==
    {q \in ScoreSeqs : /\ Len(q) >= 2
                       /\ \A k \in DOMAIN q : q[k] # NaN
                       /\ \E k \in DOMAIN q : q[k] # q[1]}

InitExtraction ==
    /\ \E cs \in CsvColumns, pre \in PreRows :
          \E sc \in [1..NUM_GROUPS -> VaryingScoreSeqs] :
              heap = <<RawMatrix(cs, pre, sc)>>
    /\ matrix = 0
    /\ groups = <<>>
    /\ forms = <<>>
    /\ pc = "loaded"
    /\ adequacy = None /\ fa = None /\ saved = <<>> /\ out = <<>>
    /\ IdleTri /\ IdleBoot /\ IdleCt

SpecExtraction == InitExtraction /\ [][NextMain]_vars

\* C16: perform_factor_analysis returns one loadings entry and one eigenvalue
\* entry for each group, entry i from the complete cases of group i, every
\* one extracted with NUM_FACTORS = 3 factors, varimax rotation and the
\* principal method.
C16_OneEntryPerGroupInOrder ==
    fa.kind # "none" =>
        (fa.kind = "returned" =>
            /\ Len(fa.loadings) = Len(groups)
            /\ Len(fa.eigenvalues) = Len(groups)
            /\ \A i \in DOMAIN groups :
                  /\ fa.loadings[i].cases = Ids(DropNa(heap[groups[i]]))
                  /\ fa.eigenvalues[i].cases = Ids(DropNa(heap[groups[i]]))
                  /\ fa.loadings[i].factors = NUM_FACTORS
                  /\ fa.loadings[i].rotation = "varimax"
                  /\ fa.loadings[i].method = "principal")

\* C16's case: main has run to its end with four groups of different rows
C16_Witness ==
    /\ pc = "done"
    /\ fa.kind = "returned"
    /\ Len(fa.loadings) = NUM_GROUPS
    /\ \A i, j \in DOMAIN groups :
          i # j => Ids(heap[groups[i]]) \cap Ids(heap[groups[j]]) = {}
    /\ \A i \in DOMAIN groups : Len(heap[groups[i]].rows) >= 2

\* C17: the eigenvalue spectrum kept for a group of n items has n entries
\* and they add up to n: it is the spectrum of the correlation matrix of the
\* group's items, whose trace is n.
C17_SpectrumOfNItems ==
    fa.kind # "none" =>
        (fa.kind = "returned" =>
            \A i \in DOMAIN fa.eigenvalues :
                LET n == Len(heap[groups[i]].cols)
                IN  /\ n = Len(QUESTION_COLS)
                    /\ fa.eigenvalues[i].ev.count = n
                    /\ fa.eigenvalues[i].ev.sum = [of |-> "trace", value |-> n])

\* C17's case: the extraction has just returned the spectra of four groups,
\* one of them with as many rows as the bound allows
C17_Witness ==
    /\ pc = "analysed"
    /\ fa.kind = "returned"
    /\ Len(fa.eigenvalues) = NUM_GROUPS
    /\ \E i \in DOMAIN groups : Len(heap[groups[i]].rows) = MaxGroupRows

\* C18: the interpretation printed for the overall KMO is the band the value
\* lies in, lower bounds inclusive (below 0.5 Unacceptable, from 0.5
\* Miserable, from 0.6 Mediocre, from 0.7 Middling, from 0.8 Meritorious, from
\* 0.9 Marvelous); the value returned is the value calculated; and whatever
\* the band, main goes on to the factor extraction.
C18_KmoBandInformational ==
    adequacy.kind = "ok" =>
        LET k == adequacy.kmo_model
        IN  /\ k = adequacy.calculated
            /\ (k < 50) <=> (adequacy.interpretation = "Unacceptable")
            /\ (k >= 50 /\ k < 60) <=> (adequacy.interpretation = "Miserable")
            /\ (k >= 60 /\ k < 70) <=> (adequacy.interpretation = "Mediocre")
            /\ (k >= 70 /\ k < 80) <=> (adequacy.interpretation = "Middling")
            /\ (k >= 80 /\ k < 90) <=> (adequacy.interpretation = "Meritorious")
            /\ (k >= 90) <=> (adequacy.interpretation = "Marvelous")
            /\ pc # "adequate" => fa.kind # "none"

\* C18's case: a KMO on a band's lower limit, in the lowest acceptable band,
\* and the extraction has run and main has reached its end
C18_Witness ==
    /\ adequacy.kind = "ok"
    /\ adequacy.kmo_model = 50
    /\ adequacy.interpretation = "Miserable"
    /\ fa.kind = "returned"
    /\ pc = "done"

---------------------------------------------------------------------------
(* correlation_heatmaps.main *)

\* correlation_heatmaps.filter_data: two boolean selections, each a new
\* object
CH_FilterData(h, m) ==
    LET r1 == NewRef(h, m)
        h1 == Store(h, r1,
                    ApplyMask(h[m], [k \in DOMAIN h[m].rows |->
                                Eq(h[m].rows[k].v["uloga"], 2)]))
        r2 == NewRef(h1, r1)
        h2 == Store(h1, r2,
                    ApplyMask(h1[r1], [k \in DOMAIN h1[r1].rows |->
                                Gt(h1[r1].rows[k].v["cesto"], 1)]))
    IN  [heap |-> h2, ref |-> r2]

\* filtered_matrix = pd.read_csv(...)
InitCorrelation ==
    /\ \E cs \in CsvColumns : \E m \in RawMatrices(cs) : heap = <<m>>
    /\ matrix = 1
    /\ groups = <<>>
    /\ forms = <<>>
    /\ pc = "ch_loaded"
    /\ adequacy = None /\ fa = None /\ saved = <<>> /\ out = <<>>
    /\ IdleTri /\ IdleBoot /\ IdleCt

\* filtered_matrix = filter_data(filtered_matrix)
ch_main_filter_data ==
    /\ pc = "ch_loaded"
    /\ LET r == CH_FilterData(heap, matrix)
       IN  heap' = r.heap /\ matrix' = r.ref
    /\ pc' = "ch_filtered"
    /\ out' = Append(out, "filter_data")
    /\ UNCHANGED <<groups, forms, adequacy, fa, saved, tri, boot, ct>>

\* forms = prepare_format_groups(filtered_matrix)
ch_main_prepare_format_groups ==
    /\ pc = "ch_filtered"
    /\ LET r == CH_PrepareFormatGroups(heap, matrix)
       IN  heap' = r.heap /\ forms' = r.groups
    /\ pc' = "ch_prepared"
    /\ out' = Append(out, "prepare_format_groups")
    /\ UNCHANGED <<matrix, groups, adequacy, fa, saved, tri, boot, ct>>

\* the call of run_bootstrap_analysis(forms) is a comment: the next statement
\* is correlations, ... = calculate_correlations(forms)
ch_main_calculate_correlations ==
    /\ pc = "ch_prepared"
    /\ pc' = "ch_correlated"
    /\ out' = Append(out, "calculate_correlations")
    /\ UNCHANGED <<heap, matrix, groups, forms, adequacy, fa, saved, tri, boot, ct>>

\* plot_individual_heatmaps(correlations, corr_m2_ordered, corr_m4_ordered)
ch_main_plot_individual_heatmaps ==
    /\ pc = "ch_correlated"
    /\ pc' = "ch_done"
    /\ out' = Append(out, "plot_individual_heatmaps")
    /\ UNCHANGED <<heap, matrix, groups, forms, adequacy, fa, saved, tri, boot, ct>>

NextCorrelation ==
    \/ ch_main_filter_data
    \/ ch_main_prepare_format_groups
    \/ ch_main_calculate_correlations
    \/ ch_main_plot_individual_heatmaps

SpecCorrelation == InitCorrelation /\ [][NextCorrelation]_vars

\* C21: in correlation_heatmaps.main the bootstrap estimator has been run for
\* the group pairs by the time the correlation matrices are computed and
\* plotted.
C21_BootstrapBeforeCorrelations ==
    pc \in {"ch_correlated", "ch_done"} =>
        /\ boot.kind = "returned"
        /\ \E k \in DOMAIN out : out[k] = "run_bootstrap_analysis"

---------------------------------------------------------------------------
(* inter_item_correlation.filter_data *)

\* vars = ['g01', ..., 'g13']
IIC_VARS == QUESTION_COLS \o <<"g13">>

\* how many of the thirteen fields of a row have values
NotNaCount(row) == Cardinality({c \in Range(IIC_VARS) : row.v[c] # NaN})

\* filter_data: three boolean selections, each a new object; the third keeps
\* the rows with matrix[vars].notna().sum(axis=1) >= 6
IIC_FilterData(h, m) ==
    LET r1 == NewRef(h, m)
        h1 == Store(h, r1,
                    ApplyMask(h[m], [k \in DOMAIN h[m].rows |->
                                Eq(h[m].rows[k].v["uloga"], 2)]))
        r2 == NewRef(h1, r1)
        h2 == Store(h1, r2,
                    ApplyMask(h1[r1], [k \in DOMAIN h1[r1].rows |->
                                Gt(h1[r1].rows[k].v["cesto"], 1)]))
        r3 == NewRef(h2, r2)
        h3 == Store(h2, r3,
                    ApplyMask(h2[r2], [k \in DOMAIN h2[r2].rows |->
                                NotNaCount(h2[r2].rows[k]) >= 6]))
    IN  [heap |-> h3, ref |-> r3]

\* numbers of answered fields around the limit, none and all
IicCounts == {0, 4, 5, 6, 7, Len(IIC_VARS)}

\* a row with the first k of the thirteen fields answered
IicRow(id, uloga, cesto, k) ==
    [id |-> id,
     v  |-> [c \in AllCols |->
               CASE c = "uloga"    -> uloga
                 [] c = "cesto"    -> cesto
                 [] c = "formatUp" -> 1
                 [] c = "hidden"   -> Num(HIDDEN_THRESHOLD)
                 [] OTHER          ->
                      IF \E j \in 1..k : IIC_VARS[j] = c THEN 1 ELSE NaN]]

\* matrix = pd.read_csv(...): rows of students and others, frequent visitors
\* and others
InitIic ==
    /\ \E cs \in CsvColumns, n \in 0..MaxRows :
          \E ucs \in [1..n -> {1, 2, NaN} \X {1, 2} \X IicCounts] :
              heap = <<[cols |-> cs,
                        rows |-> [k \in 1..n |->
                                    IicRow(k, ucs[k][1], ucs[k][2], ucs[k][3])]]>>
    /\ matrix = 1
    /\ groups = <<>>
    /\ forms = <<>>
    /\ pc = "iic_loaded"
    /\ adequacy = None /\ fa = None /\ saved = <<>> /\ out = <<>>
    /\ IdleTri /\ IdleBoot /\ IdleCt

\* matrix = filter_data(matrix)
iic_filter_data ==
    /\ pc = "iic_loaded"
    /\ LET r == IIC_FilterData(heap, matrix)
       IN  heap' = r.heap /\ matrix' = r.ref
    /\ pc' = "iic_filtered"
    /\ UNCHANGED <<groups, forms, adequacy, fa, saved, out, tri, boot, ct>>

NextIic == iic_filter_data

SpecIic == InitIic /\ [][NextIic]_vars

\* C22: inter_item_correlation.filter_data keeps a row exactly when it is a
\* student (uloga == 2) who regularly visits (cesto > 1) with at least 5 of
\* the thirteen fields g01..g13 answered.
C22_KeepsAtLeastFive ==
    pc = "iic_filtered" =>
        \A k \in DOMAIN heap[1].rows :
            LET row == heap[1].rows[k]
            IN  (row.id \in Ids(heap[matrix]))
                <=> (Eq(row.v["uloga"], 2) /\ Gt(row.v["cesto"], 1) /\ NotNaCount(row) >= 5)

---------------------------------------------------------------------------
(* factor_analysis.main: what runs, and in which order *)

\* item scores of a group: no rows, rows fit() accepts, or rows that all
\* have the same score
PipelineScoreSeqs ==
    {<<>>} \cup VaryingScoreSeqs
           \cup {q \in ScoreSeqs : Len(q) = MaxGroupRows /\ \A k \in DOMAIN q : q[k] = 1}

InitPipeline ==
    /\ \E cs \in CsvColumns, pre \in PreRows :
          \E sc \in [1..NUM_GROUPS -> PipelineScoreSeqs] :
              heap = <<RawMatrix(cs, pre, sc)>>
    /\ matrix = 0
    /\ groups = <<>>
    /\ forms = <<>>
    /\ pc = "loaded"
    /\ adequacy = None /\ fa = None /\ saved = <<>> /\ out = <<>>
    /\ IdleTri /\ IdleBoot /\ IdleCt

SpecPipeline == InitPipeline /\ [][NextMain]_vars

\* the steps of main after the partition, in the order the claim gives
AnalysisSteps ==
    <<"perform_adequacy_tests", "perform_factor_analysis", "create_scree_plot",
      "create_loadings_heatmaps", "save_loadings_to_csv", "save_loadings_to_csv",
      "save_loadings_to_csv", "save_loadings_to_csv", "print_summary">>

\* the steps of AnalysisSteps that main has taken, in the order it took them
StepsTaken == SelectSeq(out, LAMBDA x : x \in Range(AnalysisSteps))

\* C23: in factor_analysis.main no adequacy test, factor extraction or export
\* of loadings happens unless the filtered matrix and all four groups have
\* rows; and what happens of them happens in the order adequacy tests, factor
\* extraction, plots, export of the loadings of group indices 0, 1, 2, 3 once
\* each in that order, summary.
C23_GuardedAndOrdered ==
    /\ Len(StepsTaken) <= Len(AnalysisSteps)
    /\ StepsTaken = SubSeq(AnalysisSteps, 1, Len(StepsTaken))
    /\ (adequacy.kind # "none") <=> (\E k \in DOMAIN out : out[k] = "perform_adequacy_tests")
    /\ (fa.kind # "none") <=> (\E k \in DOMAIN out : out[k] = "perform_factor_analysis")
    /\ Len(saved) = Len(SelectSeq(out, LAMBDA x : x = "save_loadings_to_csv"))
    /\ \A k \in DOMAIN saved :
          /\ saved[k].group_index = k - 1
          /\ fa.kind = "returned"
          /\ saved[k].loadings = fa.loadings[k]
    /\ (StepsTaken # <<>> \/ adequacy.kind # "none" \/ fa.kind # "none" \/ saved # <<>>) =>
          /\ matrix # 0
          /\ heap[matrix].rows # <<>>
          /\ Len(groups) = NUM_GROUPS
          /\ \A i \in DOMAIN groups : heap[groups[i]].rows # <<>>

\* C23's case: main has run to its end: the loadings of the four groups are
\* exported and the summary is printed
C23_Witness ==
    /\ pc = "done"
    /\ Len(saved) = NUM_GROUPS
    /\ StepsTaken = AnalysisSteps

---------------------------------------------------------------------------
(* The two partitioners and response_length_analysis.classify_text_box_size *)

\* return 1 if hidden_value < 51 else 2
ClassifyTextBoxSize(hidden_value) == IF Lt(hidden_value, Num(51)) THEN 1 ELSE 2

\* the two partitioners return the same four frames: same columns, same rows,
\* same positions
SameGroups ==
    /\ Len(groups) = Len(forms)
    /\ \A i \in DOMAIN groups : heap[groups[i]] = heap[forms[i]]

\* the ids of the rows in the Order A groups (1 and 3) and in the Order B
\* groups (2 and 4)
OrderA == Ids(heap[groups[1]]) \cup Ids(heap[groups[3]])
OrderB == Ids(heap[groups[2]]) \cup Ids(heap[groups[4]])

\* C24: the two partitioners are equivalent: on every input matrix they
\* return the same four groups, with the same rows in the same positions and
\* the same columns; and among the rows they place, classify_text_box_size
\* returns 1 for exactly the rows of an Order A group and 2 for exactly the
\* rows of an Order B group.
C24_EquivalentAndClassified ==
    (groups # <<>> /\ forms # <<>>) =>
        /\ SameGroups
        /\ \A k \in DOMAIN heap[matrix].rows :
              LET row == heap[matrix].rows[k]
                  c   == ClassifyTextBoxSize(row.v["hidden"])
              IN  row.id \in OrderA \cup OrderB =>
                      /\ (c = 1) <=> (row.id \in OrderA)
                      /\ (c = 2) <=> (row.id \in OrderB)

---------------------------------------------------------------------------
(* completion_time_analysis *)

MAX_INTERVIEW_TIME == 3600
MIN_RESPONSES == 5

\* the most rows the input matrix has
MaxCtRows == 2

\* a row of the matrix: the columns main reads
CtRows ==
    [interviewtime  : {MAX_INTERVIEW_TIME - 1, MAX_INTERVIEW_TIME},
     BrOdgovora     : {MIN_RESPONSES - 1, MIN_RESPONSES},
     FormatUpitnika : {1, 2, 3},
     O123Ima1Nema2  : {1, 2, 3}]

\* matrix[(matrix['interviewtime'] < MAX_INTERVIEW_TIME) &
\*        (matrix['BrOdgovora'] >= MIN_RESPONSES)].copy()
CT_FilterData(m) ==
    SelectSeq(m, LAMBDA r : /\ r.interviewtime < MAX_INTERVIEW_TIME
                            /\ r.BrOdgovora >= MIN_RESPONSES)

\* a bug: the test is only refused when both groups are empty
BothEmpty(group1, group2) == Len(group1) = 0 /\ Len(group2) = 0

\* len(group1) == 0 or len(group2) == 0
EitherEmpty(group1, group2) == Len(group1) = 0 \/ Len(group2) = 0

\* what mannwhitneyu(group1, group2) can do: return a p-value below alpha,
\* return one that is not, or raise (it raises on an empty sample)
MannWhitneyU(group1, group2) ==
    IF Len(group1) = 0 \/ Len(group2) = 0
    THEN {"raised"}
    ELSE {"significant", "not significant", "raised"}

\* perform_mann_whitney_test(group1, group2, ..., test_description): the
\* results it can return, each with the calls it made to
\* get_descriptive_stats and to mannwhitneyu
PerformMannWhitneyTest(group1, group2, test_description) ==
    IF EitherEmpty(group1, group2)
    THEN {[n1 |-> Len(group1), n2 |-> Len(group2), stats |-> 0, tests |-> 0,
           result |-> None]}
    ELSE {[n1 |-> Len(group1), n2 |-> Len(group2), stats |-> 2, tests |-> 1,
           result |-> IF o = "raised"
                      THEN None
                      ELSE [kind        |-> "result",
                            description |-> test_description,
                            n1          |-> Len(group1),
                            n2          |-> Len(group2),
                            significant |-> (o = "significant")]] :
             o \in MannWhitneyU(group1, group2)}

\* analyze_by_format(matrix, description): the interviewtime of the rows of
\* format 1 against that of the rows of format 2
AnalyzeByFormat(m, description) ==
    LET time(q) == [k \in DOMAIN q |-> q[k].interviewtime]
        format1 == time(SelectSeq(m, LAMBDA r : r.FormatUpitnika = 1))
        format2 == time(SelectSeq(m, LAMBDA r : r.FormatUpitnika = 2))
    IN  PerformMannWhitneyTest(format1, format2, description)

\* print_summary_table(all_results): the rows of the two tables
PrintSummaryTable(all_results) ==
    LET shown == SelectSeq(all_results, LAMBDA r : r.kind # "none")
    IN  [tests   |-> [k \in DOMAIN shown |->
                        [description |-> shown[k].description,
                         n1          |-> shown[k].n1,
                         n2          |-> shown[k].n2,
                         significant |-> shown[k].significant]],
         medians |-> [k \in DOMAIN shown |->
                        [description |-> shown[k].description]]]

\* sum(1 for r in all_results if r and r['significant'])
SignificantCount(all_results) ==
    Len(SelectSeq(all_results, LAMBDA r : r.kind # "none" /\ r.significant))

\* sum(1 for r in all_results if r is not None)
TotalTests(all_results) == Len(SelectSeq(all_results, LAMBDA r : r.kind # "none"))

\* matrix = pd.read_csv(...)
InitCt ==
    /\ \E n \in 0..MaxCtRows : \E m \in [1..n -> CtRows] :
          ct = [kind |-> "main", matrix |-> m, all_results |-> <<>>,
                calls |-> <<>>, table |-> None,
                significant_count |-> 0, total_tests |-> 0]
    /\ heap = <<>>
    /\ matrix = 0
    /\ groups = <<>>
    /\ forms = <<>>
    /\ pc = "ct_loaded"
    /\ adequacy = None /\ fa = None /\ saved = <<>> /\ out = <<>>
    /\ IdleTri /\ IdleBoot

\* matrix = filter_data(matrix); all_results = []
ct_filter_data ==
    /\ pc = "ct_loaded"
    /\ ct' = [ct EXCEPT !.matrix = CT_FilterData(@)]
    /\ pc' = "ct_filtered"
    /\ UNCHANGED <<heap, matrix, groups, forms, adequacy, fa, saved, out, tri, boot>>

\* result1 = analyze_by_format(matrix, "Overall Sample");
\* all_results.append(result1)
ct_overall ==
    /\ pc = "ct_filtered"
    /\ \E c \in AnalyzeByFormat(ct.matrix, "Overall Sample") :
          ct' = [ct EXCEPT !.all_results = Append(@, c.result),
                           !.calls = Append(@, c)]
    /\ pc' = "ct_test1"
    /\ UNCHANGED <<heap, matrix, groups, forms, adequacy, fa, saved, out, tri, boot>>

\* subset = matrix[matrix['O123Ima1Nema2'] == code].copy();
\* if len(subset) > 0: all_results.append(analyze_by_format(subset, ...))
\* else: all_results.append(None)
CT_Subset(code, description) ==
    LET subset == SelectSeq(ct.matrix, LAMBDA r : r.O123Ima1Nema2 = code)
    IN  IF Len(subset) > 0
        THEN \E c \in AnalyzeByFormat(subset, description) :
                ct' = [ct EXCEPT !.all_results = Append(@, c.result),
                                 !.calls = Append(@, c)]
        ELSE ct' = [ct EXCEPT !.all_results = Append(@, None)]

\* Test 2: respondents with text responses
ct_with_text ==
    /\ pc = "ct_test1"
    /\ CT_Subset(1, "With Text Responses")
    /\ pc' = "ct_test2"
    /\ UNCHANGED <<heap, matrix, groups, forms, adequacy, fa, saved, out, tri, boot>>

\* Test 3: respondents without text responses
ct_without_text ==
    /\ pc = "ct_test2"
    /\ CT_Subset(2, "Without Text Responses")
    /\ pc' = "ct_test3"
    /\ UNCHANGED <<heap, matrix, groups, forms, adequacy, fa, saved, out, tri, boot>>

\* print_summary_table(all_results)
ct_print_summary_table ==
    /\ pc = "ct_test3"
    /\ ct' = [ct EXCEPT !.table = PrintSummaryTable(ct.all_results)]
    /\ pc' = "ct_summary"
    /\ UNCHANGED <<heap, matrix, groups, forms, adequacy, fa, saved, out, tri, boot>>

\* significant_count = ...; total_tests = ...;
\* print "Significant results: {significant_count} out of {total_tests} tests"
ct_conclusion ==
    /\ pc = "ct_summary"
    /\ ct' = [ct EXCEPT !.significant_count = SignificantCount(ct.all_results),
                        !.total_tests = TotalTests(ct.all_results)]
    /\ pc' = "ct_done"
    /\ UNCHANGED <<heap, matrix, groups, forms, adequacy, fa, saved, out, tri, boot>>

NextCt ==
    \/ ct_filter_data
    \/ ct_overall
    \/ ct_with_text
    \/ ct_without_text
    \/ ct_print_summary_table
    \/ ct_conclusion

SpecCt == InitCt /\ [][NextCt]_vars

\* the descriptions of the three analyses, in the order main runs them
CtDescriptions == <<"Overall Sample", "With Text Responses", "Without Text Responses">>

\* how many of the three analyses main has been through
CtAnalysesDone ==
    CASE pc \in {"ct_loaded", "ct_filtered"} -> 0
      [] pc = "ct_test1" -> 1
      [] pc = "ct_test2" -> 2
      [] OTHER -> 3

\* C25: perform_mann_whitney_test returns None, without computing descriptive
\* statistics or running the test, whenever either group is empty; each of
\* the three analyses of main adds exactly one entry (a result or None) to
\* all_results; print_summary_table shows the entries that are not None and
\* no others; the reported number of tests is the number of entries that are
\* not None, and the reported number of significant ones is never larger.
C25_NoneOnEmptyAndCounts ==
    ct.kind = "main" =>
        /\ \A k \in DOMAIN ct.calls :
              (ct.calls[k].n1 = 0 \/ ct.calls[k].n2 = 0) =>
                  /\ ct.calls[k].result.kind = "none"
                  /\ ct.calls[k].stats = 0
                  /\ ct.calls[k].tests = 0
        /\ Len(ct.all_results) = CtAnalysesDone
        /\ \A k \in DOMAIN ct.all_results :
              \/ ct.all_results[k].kind = "none"
              \/ /\ ct.all_results[k].kind = "result"
                 /\ ct.all_results[k].description = CtDescriptions[k]
        /\ pc \in {"ct_summary", "ct_done"} =>
              \A t \in {ct.table.tests, ct.table.medians} :
                  /\ Len(t) = Cardinality({k \in DOMAIN ct.all_results :
                                             ct.all_results[k].kind # "none"})
                  /\ \A k \in DOMAIN ct.all_results :
                        (ct.all_results[k].kind # "none") <=>
                            (\E j \in DOMAIN t :
                                t[j].description = CtDescriptions[k])
        /\ pc = "ct_done" =>
              /\ ct.total_tests = Cardinality({k \in DOMAIN ct.all_results :
                                                 ct.all_results[k].kind # "none"})
              /\ ct.significant_count <= ct.total_tests

\* C25's case: main has run to its end; one analysis was refused because one
\* of its two groups was empty, another one gave a significant result
C25_Witness ==
    /\ pc = "ct_done"
    /\ \E k \in DOMAIN ct.calls :
          ct.calls[k].n1 = 0 /\ ct.calls[k].n2 > 0 /\ ct.calls[k].result.kind = "none"
    /\ ct.significant_count >= 1
    /\ ct.total_tests < Len(ct.all_results)

=============================================================================
